---- MODULE Spec2Model ----
(***************************************************************************)
(* The scene choreography of relativity.py: the ThoughtBubble and Narrator *)
(* shapes, the narration helper and the stage driver                       *)
(* AdvancedRelativity.construct.                                           *)
(*                                                                         *)
(* Lengths are in thousandths of a scene unit and times in milliseconds,   *)
(* so that every quantity of the source (0.15 - i*0.03, scale(0.7), ...)   *)
(* is an exact integer.  A point or direction is a pair <<x, y>>.          *)
(***************************************************************************)
EXTENDS Integers, Sequences, FiniteSets, TLC

VARIABLES
  assetResolves,  \* whether assets/narrator.svg resolves (environment)
  svgWidth,       \* width of the narrator drawing at SVGMobject's height 2
  stage,          \* the driver's position: which stage construct is in
  body,           \* the instructions of the stage construct is in
  pc,             \* index of the next instruction of body
  playing,        \* TRUE while the issued play/wait has not completed
  config,         \* the frame configuration and background colour
  camera,         \* the camera orientation (phi, theta), in degrees
  narrator,       \* the Narrator object held by construct, or None
  built,          \* the last ThoughtBubble as __init__ returned it, or None
  bubble,         \* that ThoughtBubble after scale(0.7) and next_to, or None
  caption,        \* the caption Text most recently constructed, or None
  canvas,         \* names of the mobjects in the scene
  before,         \* the canvas at the moment the last instruction was issued
  trace           \* every play/wait issued so far, in order

vars == <<assetResolves, svgWidth, stage, body, pc, playing, config, camera,
          narrator, built, bubble, caption, canvas, before, trace>>

\* Largest narrator drawing considered: svgWidth ranges over 400*(1..MaxSvgWidth).
MaxSvgWidth == 2

None == [kind |-> "none"]

-----------------------------------------------------------------------------
(* Geometry: directions, bounding boxes, next_to, scale, move_to.          *)

UP == <<0, 1>>
DOWN == <<0, -1>>
LEFT == <<-1, 0>>

Min(S) == CHOOSE m \in S : \A n \in S : m <= n
Max(S) == CHOOSE m \in S : \A n \in S : m >= n

\* The element of a singleton set.  Value({F(v) : v \in {e}}) is F(e) with e
\* evaluated once, however often F uses it.
Value(S) == CHOOSE r \in S : TRUE

Circle(radius) == [x |-> 0, y |-> 0, r |-> radius]

CircleBox(c) == [x0 |-> c.x - c.r, x1 |-> c.x + c.r,
                 y0 |-> c.y - c.r, y1 |-> c.y + c.r]

\* The circles of a ThoughtBubble: self[0] and the members of self[1].
Family(b) == {b.main} \cup {b.bubbles[i] : i \in DOMAIN b.bubbles}

\* The bounding box of a mobject (over all its submobjects).
Hull(boxes) ==
  [x0 |-> Min({b.x0 : b \in boxes}), x1 |-> Max({b.x1 : b \in boxes}),
   y0 |-> Min({b.y0 : b \in boxes}), y1 |-> Max({b.y1 : b \in boxes})]

BoundingBox(m) ==
  IF m.kind = "ThoughtBubble"
  THEN Value({Hull(boxes) : boxes \in {{CircleBox(c) : c \in Family(m)}}})
  ELSE IF m.kind = "Circle"
  THEN CircleBox(m.circle)
  ELSE [x0 |-> m.x - m.w \div 2, x1 |-> m.x + m.w \div 2,
        y0 |-> m.y - m.h \div 2, y1 |-> m.y + m.h \div 2]

\* Mobject.get_critical_point: the point of the bounding box in direction d.
BoxPoint(bb, d) ==
  LET pick(lo, hi, s) == IF s < 0 THEN lo ELSE IF s > 0 THEN hi ELSE (lo + hi) \div 2
  IN  <<pick(bb.x0, bb.x1, d[1]), pick(bb.y0, bb.y1, d[2])>>

CriticalPoint(m, d) == Value({BoxPoint(bb, d) : bb \in {BoundingBox(m)}})

\* Mobject.get_center: the centre of the bounding box of the whole mobject.
get_center(m) == CriticalPoint(m, <<0, 0>>)

ShiftCircle(c, v) == [c EXCEPT !.x = @ + v[1], !.y = @ + v[2]]

\* Mobject.shift
Shift(m, v) ==
  IF m.kind = "ThoughtBubble"
  THEN [m EXCEPT !.main = ShiftCircle(@, v),
                 !.bubbles = [i \in DOMAIN @ |-> ShiftCircle(@[i], v)]]
  ELSE IF m.kind = "Circle"
  THEN [m EXCEPT !.circle = ShiftCircle(@, v)]
  ELSE [m EXCEPT !.x = @ + v[1], !.y = @ + v[2]]

\* Mobject.next_to(target, direction, buff): the edge of m facing the target
\* is put at the target's edge in that direction, buff further along it.
ShiftNextTo(m, to, from, d, buff) ==
  Shift(m, <<to[1] - from[1] + buff * d[1], to[2] - from[2] + buff * d[2]>>)

NextTo(m, target, d, buff) ==
  Value({ShiftNextTo(v, CriticalPoint(t, d), CriticalPoint(v, <<-d[1], -d[2]>>), d, buff) :
           v \in {m}, t \in {target}})

ScaleCircle(c, o, num, den) ==
  [x |-> o[1] + ((c.x - o[1]) * num) \div den,
   y |-> o[2] + ((c.y - o[2]) * num) \div den,
   r |-> (c.r * num) \div den]

\* Mobject.scale(num/den), about the centre of the mobject.
ScaleAbout(m, o, num, den) ==
  IF m.kind = "ThoughtBubble"
  THEN [m EXCEPT !.main = ScaleCircle(@, o, num, den),
                 !.bubbles = [i \in DOMAIN @ |-> ScaleCircle(@[i], o, num, den)]]
  ELSE [m EXCEPT !.w = (@ * num) \div den, !.h = (@ * num) \div den]

Scale(m, num, den) ==
  Value({ScaleAbout(v, Value({get_center(v)}), num, den) : v \in {m}})

\* Text(text).move_to(point)
Text(text) == [kind |-> "Text", text |-> text, x |-> 0, y |-> 0]
MoveTo(m, p) == [m EXCEPT !.x = p[1], !.y = p[2]]

-----------------------------------------------------------------------------
(* ThoughtBubble                                                           *)

\* for i in range(3)
NumBubbles == 3

\* TrailingBubble with the sign of the radius step slipped: 0.15 + i*0.03.
TrailingBubbleGrowing(main_bubble, i) ==
  LET c == [kind |-> "Circle", circle |-> Circle(150 + i * 30)]
      t == [kind |-> "Circle", circle |-> main_bubble]
  IN  NextTo(c, t, <<DOWN[1] + LEFT[1], DOWN[2] + LEFT[2]>>, -100 + i * 100).circle

\* The i-th trailing circle (i = 0, 1, 2) of the bubble around main_bubble.
TrailingBubble(main_bubble, i) ==
  LET c == [kind |-> "Circle", circle |-> Circle(150 - i * 30)]
      t == [kind |-> "Circle", circle |-> main_bubble]
  IN  NextTo(c, t, <<DOWN[1] + LEFT[1], DOWN[2] + LEFT[2]>>, -100 + i * 100).circle

\* ThoughtBubble.__init__
ThoughtBubble ==
  LET main_bubble == Circle(700)
  IN  [kind    |-> "ThoughtBubble",
       main    |-> main_bubble,
       bubbles |-> [k \in 1..NumBubbles |-> TrailingBubble(main_bubble, k - 1)]]

\* ThoughtBubble.get_bubble_center: the centre of self[0], the main circle.
get_bubble_center(b) == <<b.main.x, b.main.y>>

-----------------------------------------------------------------------------
(* Narrator                                                                *)

\* Narrator.__init__: the drawing, centred, at SVGMobject's height 2, then
\* self.scale(1.5).  Called only when the asset file resolves.
Narrator(width) ==
  Scale([kind |-> "Narrator", x |-> 0, y |-> 0, w |-> width, h |-> 2000], 3, 2)

\* Mobject.to_edge(LEFT): the left edge of m at the frame's left edge plus
\* the default buffer 0.5.
ToLeftEdge(m, cfg) ==
  Shift(m, <<(-(cfg.frame_width \div 2) + 500) - BoundingBox(m).x0, 0>>)

\* AdvancedRelativity.create_narrator
create_narrator(width, cfg) ==
  Shift(ToLeftEdge(Narrator(width), cfg), <<1000 * DOWN[1], 1000 * DOWN[2]>>)

-----------------------------------------------------------------------------
(* Instructions: what a stage hands to the renderer.                       *)

NoArgs == <<>>
NoLocals == [built |-> None, bubble |-> None, caption |-> None]

\* self.play(*anims, run_time=...): run_time is <<>> when the call gives none.
\* locals are the bubble and caption the function built for this batch.
Play(fn, args, anims, run_time, locals) ==
  [op |-> "play", fn |-> fn, args |-> args, anims |-> anims,
   run_time |-> run_time, locals |-> locals, orientation |-> <<>>]

\* self.wait(duration)
Wait(fn, args, duration) ==
  [op |-> "wait", fn |-> fn, args |-> args, anims |-> {},
   run_time |-> <<duration>>, locals |-> NoLocals, orientation |-> <<>>]

\* self.set_camera_orientation(phi, theta)
SetCamera(fn, args, phi, theta) ==
  [op |-> "camera", fn |-> fn, args |-> args, anims |-> {},
   run_time |-> <<>>, locals |-> NoLocals, orientation |-> <<phi, theta>>]

Anim(kind, target) == [kind |-> kind, target |-> target]
Write(m) == Anim("Write", m)
Create(m) == Anim("Create", m)
FadeIn(m) == Anim("FadeIn", m)
FadeOut(m) == Anim("FadeOut", m)
Transform(m) == Anim("Transform", m)
Animate(m) == Anim("animate", m)

Targets(ins) == {a.target : a \in ins.anims}
Removed(ins) == {a.target : a \in {b \in ins.anims : b.kind = "FadeOut"}}

-----------------------------------------------------------------------------
(* The stages.  Each is the sequence of instructions its method issues,    *)
(* the methods it calls included, in program order.                        *)

\* show_title whose last batch forgets the subtitle.
show_title_keeps_subtitle ==
  LET fn == "show_title"
  IN  << Play(fn, NoArgs, {Write("title"), FadeIn("subtitle")}, <<>>, NoLocals),
         Wait(fn, NoArgs, 2000),
         Play(fn, NoArgs, {FadeOut("title")}, <<>>, NoLocals) >>

\* AdvancedRelativity.show_title
show_title ==
  LET fn == "show_title"
  IN  << Play(fn, NoArgs, {Write("title"), FadeIn("subtitle")}, <<>>, NoLocals),
         Wait(fn, NoArgs, 2000),
         Play(fn, NoArgs, {FadeOut("title"), FadeOut("subtitle")}, <<>>, NoLocals) >>

\* AdvancedRelativity.introduce_narrator
introduce_narrator(n) ==
  LET fn == "introduce_narrator"
      args == [narrator |-> n]
      b0 == ThoughtBubble
      b == NextTo(Scale(b0, 7, 10), n, UP, 250)
      c == MoveTo(Text("Let's explore spacetime!"), get_bubble_center(b))
      made == [built |-> b0, bubble |-> b, caption |-> c]
  IN  << Play(fn, args, {Create("bubble"), Write("caption")}, <<>>, made),
         Wait(fn, args, 2000),
         Play(fn, args, {FadeOut("bubble"), FadeOut("caption")}, <<>>, NoLocals) >>

\* show_narration whose last batch forgets the caption.
show_narration_keeps_caption(n, text) ==
  LET fn == "show_narration"
      args == [narrator |-> n, text |-> text]
      b0 == ThoughtBubble
      b == NextTo(Scale(b0, 7, 10), n, UP, 250)
      c == MoveTo(Text(text), get_center(b))
      made == [built |-> b0, bubble |-> b, caption |-> c]
  IN  << Play(fn, args, {Create("bubble"), Write("caption")}, <<>>, made),
         Wait(fn, args, 3000),
         Play(fn, args, {FadeOut("bubble")}, <<>>, NoLocals) >>

\* AdvancedRelativity.show_narration
show_narration(n, text) ==
  LET fn == "show_narration"
      args == [narrator |-> n, text |-> text]
      b0 == ThoughtBubble
      b == NextTo(Scale(b0, 7, 10), n, UP, 250)
      c == MoveTo(Text(text), get_center(b))
      made == [built |-> b0, bubble |-> b, caption |-> c]
  IN  << Play(fn, args, {Create("bubble"), Write("caption")}, <<>>, made),
         Wait(fn, args, 3000),
         Play(fn, args, {FadeOut("bubble"), FadeOut("caption")}, <<>>, NoLocals) >>

\* AdvancedRelativity.show_time_dilation
show_time_dilation(earth_frame, ship_frame, n) ==
  LET fn == "show_time_dilation"
      args == [earth_frame |-> earth_frame, ship_frame |-> ship_frame, narrator |-> n]
  IN  << Play(fn, args, {Create("earth_clock"), Create("ship_clock")}, <<>>, NoLocals),
         Play(fn, args, {Animate("earth_clock"), Animate("ship_clock")}, <<2000>>, NoLocals) >>
      \o show_narration(n, "Time runs slower\nfor fast-moving objects!")
      \o << Play(fn, args, {FadeOut("earth_clock"), FadeOut("ship_clock")}, <<>>, NoLocals) >>

\* special_relativity_chapter whose last batch fades the narrator out too.
special_relativity_chapter_fades_narrator(n) ==
  LET fn == "special_relativity_chapter"
      args == [narrator |-> n]
  IN  << Play(fn, args, {Write("sr_chapter_title")}, <<>>, NoLocals),
         Play(fn, args, {Create("diagram")}, <<>>, NoLocals) >>
      \o show_time_dilation("earth_frame", "ship_frame", n)
      \o << Play(fn, args, {FadeOut("diagram"), FadeOut("sr_chapter_title")}, <<>>, NoLocals),
            Play(fn, args, {FadeOut("earth_frame"), FadeOut("ship_frame"),
                            FadeOut("narrator")}, <<>>, NoLocals) >>

\* AdvancedRelativity.special_relativity_chapter; create_spacetime_diagram and
\* create_reference_frames only build objects and issue nothing.
special_relativity_chapter(n) ==
  LET fn == "special_relativity_chapter"
      args == [narrator |-> n]
  IN  << Play(fn, args, {Write("sr_chapter_title")}, <<>>, NoLocals),
         Play(fn, args, {Create("diagram")}, <<>>, NoLocals) >>
      \o show_time_dilation("earth_frame", "ship_frame", n)
      \o << Play(fn, args, {FadeOut("diagram"), FadeOut("sr_chapter_title")}, <<>>, NoLocals),
            Play(fn, args, {FadeOut("earth_frame"), FadeOut("ship_frame")}, <<>>, NoLocals) >>

\* for i in range(5), in show_gravitational_waves
NumWaves == 5
\* for _ in range(5), in create_photon_paths
NumPhotons == 5

Wave(i) == "wave" \o ToString(i)
Photon(i) == "photon" \o ToString(i)

\* AdvancedRelativity.show_gravitational_waves
show_gravitational_waves(grid) ==
  << Play("show_gravitational_waves", [grid |-> grid],
          {Create(Wave(i)) : i \in 0..(NumWaves - 1)}, <<3000>>, NoLocals) >>

\* AdvancedRelativity.show_black_hole
show_black_hole(mass, grid, n) ==
  LET fn == "show_black_hole"
      args == [mass |-> mass, grid |-> grid, narrator |-> n]
  IN  << Play(fn, args, {Transform(mass), Animate(grid), Create("accretion_disk")},
              <<>>, NoLocals) >>
      \o [k \in 1..NumPhotons |-> Play(fn, args, {Create(Photon(k - 1))}, <<500>>, NoLocals)]
      \o show_narration(n, "Black holes warp spacetime\nso severely that light\ncannot escape!")

\* AdvancedRelativity.general_relativity_chapter
general_relativity_chapter(n) ==
  LET fn == "general_relativity_chapter"
      args == [narrator |-> n]
  IN  << SetCamera(fn, args, 75, -45),
         Play(fn, args, {Write("gr_chapter_title")}, <<>>, NoLocals),
         Wait(fn, args, 1000),
         Play(fn, args, {Create("warped_grid"), FadeIn("mass"), Write("einstein_eq")},
              <<>>, NoLocals) >>
      \o show_gravitational_waves("warped_grid")
      \o show_black_hole("mass", "warped_grid", n)
      \o << Play(fn, args, {FadeOut("gr_chapter_title"), FadeOut("einstein_eq")},
                 <<>>, NoLocals) >>

\* AdvancedRelativity.show_conclusion
show_conclusion ==
  LET fn == "show_conclusion"
  IN  << Play(fn, NoArgs, {Write("final_text")}, <<>>, NoLocals),
         Wait(fn, NoArgs, 3000),
         Play(fn, NoArgs, {FadeOut("final_text")}, <<>>, NoLocals) >>

-----------------------------------------------------------------------------
(* The driver, construct.                                                  *)

\* The stages of construct, in the order it calls them.
Stages == <<"Title", "NarratorIntro", "SpecialRelativity", "GeneralRelativity",
            "Conclusion">>

\* construct, lines 47-48: the narrator is faded in, then introduced.
narrator_intro(n) ==
  << Play("construct", NoArgs, {FadeIn("narrator")}, <<>>, NoLocals) >>
  \o introduce_narrator(n)

\* The body of a stage, given the narrator construct holds.
Body(s, n) ==
  CASE s = "Title"             -> show_title
    [] s = "NarratorIntro"     -> narrator_intro(n)
    [] s = "SpecialRelativity" -> special_relativity_chapter(n)
    [] s = "GeneralRelativity" -> general_relativity_chapter(n)
    [] s = "Conclusion"        -> show_conclusion
    [] OTHER                   -> <<>>

\* construct with the two chapters called in the other order.
NextStageSwapped(s) ==
  CASE s = "Title"             -> "NarratorIntro"
    [] s = "NarratorIntro"     -> "GeneralRelativity"
    [] s = "GeneralRelativity" -> "SpecialRelativity"
    [] s = "SpecialRelativity" -> "Conclusion"
    [] s = "Conclusion"        -> "Done"

\* construct without the call of show_conclusion.
NextStageNoConclusion(s) ==
  CASE s = "Title"             -> "NarratorIntro"
    [] s = "NarratorIntro"     -> "SpecialRelativity"
    [] s = "SpecialRelativity" -> "GeneralRelativity"
    [] s = "GeneralRelativity" -> "Done"
    [] s = "Conclusion"        -> "Done"

\* What construct does when the call of stage s returns.
NextStage(s) ==
  CASE s = "Title"             -> "NarratorIntro"
    [] s = "NarratorIntro"     -> "SpecialRelativity"
    [] s = "SpecialRelativity" -> "GeneralRelativity"
    [] s = "GeneralRelativity" -> "Conclusion"
    [] s = "Conclusion"        -> "Done"

Init ==
  /\ assetResolves \in BOOLEAN
  /\ svgWidth \in {400 * k : k \in 1..MaxSvgWidth}
  /\ stage = "Configuring"
  /\ body = <<>>
  /\ pc = 1
  /\ playing = FALSE
  /\ config = None
  /\ camera = <<>>
  /\ narrator = None
  /\ built = None
  /\ bubble = None
  /\ caption = None
  /\ canvas = {}
  /\ before = {}
  /\ trace = <<>>

\* construct, lines 33-40: set_camera_orientation and configure_global_settings.
configure_global_settings ==
  /\ stage = "Configuring"
  /\ camera' = <<70, -30>>
  /\ config' = [kind |-> "config", background_color |-> "#1a1a1a",
                frame_width |-> 16000, frame_height |-> 9000,
                pixel_width |-> 1920, pixel_height |-> 1080]
  /\ stage' = "Title"
  /\ body' = Body("Title", narrator)
  /\ pc' = 1
  /\ UNCHANGED <<assetResolves, svgWidth, playing, narrator, built, bubble, caption,
                 canvas, before, trace>>

\* Scene.play / Scene.wait begins: the instruction is handed to the renderer.
\* Every mobject an animation works on is in the scene while it plays.
Issue(ins) ==
  /\ ~playing
  /\ playing' = TRUE
  /\ trace' = Append(trace, [stage |-> stage, ins |-> ins])
  /\ before' = canvas
  /\ canvas' = canvas \cup Targets(ins)
  /\ built' = IF ins.locals.built # None THEN ins.locals.built ELSE built
  /\ bubble' = IF ins.locals.bubble # None THEN ins.locals.bubble ELSE bubble
  /\ caption' = IF ins.locals.caption # None THEN ins.locals.caption ELSE caption
  /\ UNCHANGED <<pc, camera>>

\* Scene.play / Scene.wait ends: what was faded out leaves the scene.
Complete(ins) ==
  /\ playing
  /\ playing' = FALSE
  /\ canvas' = canvas \ Removed(ins)
  /\ pc' = pc + 1
  /\ UNCHANGED <<trace, before, built, bubble, caption, camera>>

\* set_camera_orientation inside a stage: no suspension.
Orient(ins) ==
  /\ ~playing
  /\ camera' = ins.orientation
  /\ pc' = pc + 1
  /\ UNCHANGED <<playing, trace, before, canvas, built, bubble, caption>>

\* One step of the current stage: the next instruction of its body begins or ends.
Step ==
  /\ pc <= Len(body)
  /\ CASE body[pc].op = "camera" -> Orient(body[pc])
       [] body[pc].op \in {"play", "wait"} /\ ~playing -> Issue(body[pc])
       [] body[pc].op \in {"play", "wait"} /\ playing -> Complete(body[pc])
  /\ UNCHANGED <<assetResolves, svgWidth, stage, body, config, narrator>>

\* construct, line 43
ShowTitle ==
  /\ stage = "Title"
  /\ Step

\* construct, lines 47-48
IntroduceNarrator ==
  /\ stage = "NarratorIntro"
  /\ Step

\* construct, line 51
SpecialRelativityChapter ==
  /\ stage = "SpecialRelativity"
  /\ Step

\* construct, line 52
GeneralRelativityChapter ==
  /\ stage = "GeneralRelativity"
  /\ Step

\* construct, line 55
ShowConclusion ==
  /\ stage = "Conclusion"
  /\ Step

\* construct, line 46: show_title has returned and the narrator is created;
\* Narrator.__init__ raises when the asset does not resolve, which ends the run.
CreateNarrator ==
  /\ stage = "Title"
  /\ pc > Len(body)
  /\ IF assetResolves
     THEN \E n \in {create_narrator(svgWidth, config)} :
            /\ narrator' = n
            /\ stage' = NextStage("Title")
            /\ body' \in {Body(NextStage("Title"), n)}
     ELSE /\ narrator' = narrator
          /\ stage' = "Aborted"
          /\ body' = <<>>
  /\ pc' = 1
  /\ UNCHANGED <<assetResolves, svgWidth, playing, config, camera, built, bubble,
                 caption, canvas, before, trace>>

\* construct, lines 48-55: a stage returns and the next one is called, or
\* construct itself returns.
Construct ==
  /\ stage \in {"NarratorIntro", "SpecialRelativity", "GeneralRelativity", "Conclusion"}
  /\ pc > Len(body)
  /\ stage' = NextStage(stage)
  /\ body' \in {Body(NextStage(stage), narrator)}
  /\ pc' = 1
  /\ UNCHANGED <<assetResolves, svgWidth, playing, config, camera, narrator,
                 built, bubble, caption, canvas, before, trace>>

Next ==
  \/ configure_global_settings
  \/ ShowTitle
  \/ CreateNarrator
  \/ IntroduceNarrator
  \/ SpecialRelativityChapter
  \/ GeneralRelativityChapter
  \/ ShowConclusion
  \/ Construct

Spec == Init /\ [][Next]_vars

\* The renderer plays every batch to its end and construct runs to its end:
\* nothing in the program waits on anything else.
FairSpec == Spec /\ WF_vars(Next)

-----------------------------------------------------------------------------
(* Properties.                                                             *)

Rank(s) == CHOOSE k \in 1..Len(Stages) : Stages[k] = s
Last == trace[Len(trace)]

\* The instructions issued so far by stage s, in order.
IssuedBy(s) ==
  LET es == SelectSeq(trace, LAMBDA e : e.stage = s)
  IN  [k \in 1..Len(es) |-> es[k].ins]

\* The play/wait instructions of a body: what the renderer is handed.
Batches(b) == SelectSeq(b, LAMBDA i : i.op # "camera")

\* The entry of trace at position k has completed.
Completed(k) == k < Len(trace) \/ ~playing

StagesStarted == {trace[k].stage : k \in DOMAIN trace}

TypeOK ==
  /\ assetResolves \in BOOLEAN
  /\ stage \in {"Configuring", "Aborted", "Done"} \cup {Stages[k] : k \in DOMAIN Stages}
  /\ pc \in 1..(Len(body) + 1)
  /\ playing \in BOOLEAN
  /\ canvas \subseteq STRING

\* C1: the stages start in the order Title, NarratorIntro, SpecialRelativity,
\* GeneralRelativity, Conclusion, each once, none skipped or repeated (a run
\* that has reached Done has started all five), and a stage issues its first
\* batch only when every batch of the stage before it has been issued and has
\* completed.
C1_StageOrder ==
  /\ [](/\ \A i, j \in DOMAIN trace :
              i <= j => Rank(trace[i].stage) <= Rank(trace[j].stage)
        /\ \A s \in StagesStarted :
              \A k \in 1..(Rank(s) - 1) :
                 /\ Stages[k] \in StagesStarted
                 /\ IssuedBy(Stages[k]) = Batches(Body(Stages[k], narrator))
        /\ stage = "Done" => StagesStarted = {Stages[k] : k \in DOMAIN Stages})
  /\ [][trace' # trace => ~playing /\ trace' = Append(trace, Last')]_vars

C1_Witness ==
  /\ stage = "Done"
  /\ Len(trace) > 0
  /\ StagesStarted = {Stages[k] : k \in DOMAIN Stages}

\* C2 (as claimed): when a stage after the narrator's introduction begins, and
\* at Done, the canvas holds nothing but the narrator.
C2_StagesCleanUp ==
  (\/ stage \in {"SpecialRelativity", "GeneralRelativity", "Conclusion"}
        /\ pc = 1 /\ ~playing
   \/ stage = "Done")
  => canvas \subseteq {"narrator"}

\* C3: when special_relativity_chapter issues its first batch the canvas is
\* exactly {narrator}.
C3_CanvasEnteringSpecialRelativity ==
  (stage = "SpecialRelativity" /\ pc = 1 /\ ~playing) => canvas = {"narrator"}

C3_Witness ==
  /\ stage = "SpecialRelativity" /\ pc = 1 /\ ~playing
  /\ \E k \in DOMAIN trace : Write("title") \in trace[k].ins.anims
  /\ \E k \in DOMAIN trace : Create("bubble") \in trace[k].ins.anims

\* The narrator's fade-in batch has completed.
NarratorFadedIn ==
  \E k \in DOMAIN trace : FadeIn("narrator") \in trace[k].ins.anims /\ Completed(k)

\* C4: the narrator is not on the canvas during the Title stage; from the end
\* of its fade-in on it is on the canvas, scaled by 1.5 at the left edge and
\* one unit down, and no step removes, replaces, rescales or moves it.
C4_NarratorPersists ==
  /\ [](stage \in {"Configuring", "Title"} => "narrator" \notin canvas /\ narrator = None)
  /\ [](NarratorFadedIn =>
          /\ "narrator" \in canvas
          /\ narrator.kind = "Narrator"
          /\ narrator.h = 3000 /\ 2 * narrator.w = 3 * svgWidth
          /\ BoundingBox(narrator).x0 = -7500 /\ narrator.y = -1000)
  /\ [][narrator # None => narrator' = narrator]_vars
  /\ [][NarratorFadedIn => "narrator" \in canvas']_vars

C4_Witness ==
  /\ stage = "Done"
  /\ NarratorFadedIn
  /\ "narrator" \in canvas

\* C5 (as claimed): when the asset does not resolve the run fails before the
\* Title stage's fade-out batch is issued, and neither NarratorIntro nor any
\* later stage nor Done is reached.
C5_FailsBeforeTitleFadeOut ==
  /\ stage = "Aborted" => \A k \in DOMAIN trace : FadeOut("title") \notin trace[k].ins.anims
  /\ ~assetResolves => /\ stage \in {"Configuring", "Title", "Aborted"}
                       /\ StagesStarted \subseteq {"Title"}

\* The part of C5 the code does satisfy: without the asset no stage after
\* Title issues anything and Done is not reached.
AbortsBeforeNarratorIntro ==
  ~assetResolves => /\ stage \in {"Configuring", "Title", "Aborted"}
                    /\ StagesStarted \subseteq {"Title"}

\* C6: when the asset resolves the run reaches Done; at Done every stage has
\* issued and completed all its batches, the last of them the fade-out of
\* the conclusion's final text; after Done nothing more is issued.
C6_ReachesDone ==
  /\ assetResolves => <>(stage = "Done")
  /\ [](stage = "Done" =>
          /\ assetResolves
          /\ ~playing
          /\ \A k \in DOMAIN Stages :
                IssuedBy(Stages[k]) = Batches(Body(Stages[k], narrator))
          /\ Last.stage = "Conclusion"
          /\ Last.ins.anims = {FadeOut("final_text")})
  /\ [][stage = "Done" => stage' = "Done" /\ trace' = trace]_vars

C6_Witness ==
  /\ stage = "Done"
  /\ assetResolves
  /\ Last.ins.anims = {FadeOut("final_text")}

\* C7 (as claimed): in every narration the caption is at the centre of the
\* bubble's main circle, get_bubble_center.
C7_CaptionAtBubbleAnchor ==
  "caption" \in canvas => <<caption.x, caption.y>> = get_bubble_center(bubble)

\* The instructions issued so far by the show_narration call with this text.
NarrationCall(text) ==
  LET es == SelectSeq(trace, LAMBDA e : /\ e.ins.fn = "show_narration"
                                        /\ e.ins.args.text = text)
  IN  [k \in 1..Len(es) |-> [op |-> es[k].ins.op, anims |-> es[k].ins.anims,
                             run_time |-> es[k].ins.run_time]]

NarrationTexts ==
  {trace[k].ins.args.text : k \in {j \in DOMAIN trace : trace[j].ins.fn = "show_narration"}}

\* What a call of show_narration issues: appear, hold for 3 s, disappear.
NarrationSequence ==
  << [op |-> "play", anims |-> {Create("bubble"), Write("caption")}, run_time |-> <<>>],
     [op |-> "wait", anims |-> {}, run_time |-> <<3000>>],
     [op |-> "play", anims |-> {FadeOut("bubble"), FadeOut("caption")}, run_time |-> <<>>] >>

\* The show_narration call with this text has returned.
NarrationReturned(text) ==
  /\ Len(NarrationCall(text)) = Len(NarrationSequence)
  /\ ~(Last.ins.fn = "show_narration" /\ Last.ins.args.text = text /\ playing)

\* The show_narration call with this text is returning: its last batch has
\* just completed.
NarrationReturning(text) ==
  /\ NarrationReturned(text)
  /\ Last.ins.fn = "show_narration" /\ Last.ins.args.text = text

\* The captions of the two calls of show_narration (lines 156 and 239).
NarrationsOfSource ==
  {"Time runs slower\nfor fast-moving objects!",
   "Black holes warp spacetime\nso severely that light\ncannot escape!"}

C9_TrailingRadii ==
  built # None =>
    /\ Len(built.bubbles) = 3
    /\ \A i \in 0..2 : built.bubbles[i + 1].r = 150 - 30 * i
    /\ \A k \in 1..(Len(built.bubbles) - 1) : built.bubbles[k].r > built.bubbles[k + 1].r
    /\ \A k \in DOMAIN built.bubbles :
          built.bubbles[k].r > 0 /\ built.bubbles[k].r < built.main.r

C9_Witness == built # None /\ "bubble" \in canvas /\ Len(built.bubbles) = 3

\* C10 (as claimed): every FadeOut the driver issues targets a shape that was
\* on the canvas when the batch was issued.
C10_FadeOutTargetsOnCanvas ==
  Len(trace) > 0 => Removed(Last.ins) \subseteq before

====
